---- MODULE Spec2Model ----
(***************************************************************************)
(* Verification model of the stereo feature point generation and matching *)
(* engine of rslam (crate proslam):                                       *)
(*   - IntensityFeatureMatcher   (the feature lattice)                     *)
(*   - StereoFramePointGenerator (detection thresholds, epipolar matching) *)
(*                                                                         *)
(* Floating point pixel coordinates are modelled as integers counted in    *)
(* units of 1/SubPixel pixel; thresholds and descriptor distances are      *)
(* modelled as exact rationals with a fixed denominator.                   *)
(***************************************************************************)
EXTENDS Integers, Sequences, FiniteSets, TLC

VARIABLES
    matcher,        \* one IntensityFeatureMatcher instance (lattice specification)
    call,           \* the last call made: [op, result, arg]
    \* StereoFramePointGenerator
    feature_matcher_left,
    feature_matcher_right,
    current_maximum_descriptor_distance_triangulation,  \* in tenths
    epipolar_search_distance,
    \* what the calls on the generator produced
    accepted,       \* the pairs accepted since the last initialize, in order
    returned,       \* the last return value of get_epipolar_matches
    survivors,      \* the pairs the last compute_frame_point kept
    detectors,      \* per region: the detector's threshold, the region, the f32 threshold
    number_of_detected_keypoints,
    frame,          \* the Frame last handed to initialize
    detections,     \* the detect_keypoints calls of the last handler, in order
    fpg_detectors,  \* the detectors of a FramePointGenerator
    cfg,            \* the StereoFramePointGeneratorCfg handed to finalize
    image,          \* the image size handed to finalize: [width, height]
    \* stereo_framepoint.rs
    IDENTIFIER,     \* the static AtomicUsize
    threads,        \* per thread: where it stands in StereoFramepoint::new
    framepoints,    \* the StereoFramepoints created so far, in order of return
    sweep           \* the two-pointer sweep of get_epipolar_matches, step by step

latticeVars == <<matcher>>
detectVars == <<detectors, number_of_detected_keypoints, frame, detections,
                fpg_detectors>>
matchVars == <<feature_matcher_left, feature_matcher_right,
               current_maximum_descriptor_distance_triangulation,
               epipolar_search_distance, accepted, returned, survivors>>
cfgVars == <<cfg, image>>
pointVars == <<IDENTIFIER, threads, framepoints>>
vars == <<matcher, call, matchVars, detectVars, cfgVars, pointVars, sweep>>

(***************************************************************************)
(* Bounds of the model.                                                    *)
(***************************************************************************)
\* coordinate units per pixel: a keypoint coordinate v stands for v / SubPixel
SubPixel == 2
\* largest grid dimension handed to configure
MaxGridDim == 2
\* largest number of keypoints handed to one set_fatures call on the lattice
MaxLatticeKeypoints == 2
\* image size (pixels) handed to finalize
ImageHeight == 2
ImageWidth == 2
\* the configured bin_size_pixels
BinSizePixels == 2
\* detection stops being driven once a detector's threshold is above this
ThresholdCap == 80
\* largest number of keypoints per image in the matching specification
MaxMatchKeypoints == 2
\* largest configured maximum_epipolar_search_offset_pixels
MaxSearchOffset == 2
\* largest image side and grid side handed to FramePointGeneratorCfg::finalize
MaxImageSize == 3
MaxGridShape == 2
\* longest feature list of a sweep followed step by step
MaxSweepKeypoints == 2
\* threads creating stereo framepoints, and framepoints each of them creates
NumThreads == 2
MaxFramepointsPerThread == 2

Threads == 1..NumThreads

(***************************************************************************)
(* The configuration: StereoFramePointGeneratorCfg.                        *)
(***************************************************************************)
\* StereoFramePointGeneratorCfg::default
number_of_detectors_vertical == 1
number_of_detectors_horizontal == 1
\* target_number_of_keypoints_tolerance = 0.1 = ToleranceNum / ToleranceDen
ToleranceNum == 1
ToleranceDen == 10
\* detector_threshold_maximum_change = 0.5 = MaxChangeNum / MaxChangeDen
MaxChangeNum == 1
MaxChangeDen == 2
detector_threshold_minimum == 15
detector_threshold_maximum == 100

maximum_epipolar_search_offset_pixels_default == 0
\* maximum_matching_distance_triangulation = (0.2 * 256) as i32
maximum_matching_distance_triangulation_default == 51

\* the fields of StereoFramePointGeneratorCfg the model lets a configuration set
DefaultCfg ==
    [number_of_detectors_vertical   |-> number_of_detectors_vertical,
     number_of_detectors_horizontal |-> number_of_detectors_horizontal,
     maximum_epipolar_search_offset_pixels |->
         maximum_epipolar_search_offset_pixels_default,
     maximum_matching_distance_triangulation |->
         maximum_matching_distance_triangulation_default]

\* what finalize(width, height) returns for every configuration: the only ways
\* out of it besides Ok(generator) are the NonZeroUsize unwraps of the image size
finalize(c, width, height) ==
    IF width = 0 \/ height = 0 THEN "Panic" ELSE "Ok"


\* keypoints (coordinates in 1/SubPixel pixel) handed to the lattice: two that
\* truncate to one cell, one in another column, one in another row, one left of
\* the image
LatticeKeypoints ==
    {[x |-> 0, y |-> 0], [x |-> 1, y |-> 0], [x |-> 2, y |-> 0], [x |-> 1, y |-> 2],
     [x |-> -2, y |-> 0]}
\* descriptor rows handed to the lattice (its operations never read them)
LatticeDescriptors == {0}

Max(a, b) == IF a >= b THEN a ELSE b
Min(a, b) == IF a <= b THEN a ELSE b

(***************************************************************************)
(* IntensityFeature                                                        *)
(***************************************************************************)
\* `f32 as i32`: truncation toward zero
Trunc(v) == IF v >= 0 THEN v \div SubPixel ELSE -((-v) \div SubPixel)

IntensityFeatureNew(keypoint, descriptor, index_in_vector) ==
    [keypoint        |-> keypoint,
     descriptor      |-> descriptor,
     row             |-> Trunc(keypoint.y),
     col             |-> Trunc(keypoint.x),
     index_in_vector |-> index_in_vector]

(***************************************************************************)
(* IntensityFeatureMatcher                                                 *)
(* feature_lattice is a sequence of rows, each a sequence of cells; a cell *)
(* is << >> (None) or <<f>> (Some(f)).  Rust index i is TLA+ index i + 1.  *)
(***************************************************************************)
NoFeature == << >>

DefaultMatcher ==
    [number_of_rows  |-> 0,
     number_of_cols  |-> 0,
     feature_lattice |-> << >>,
     feature_vector  |-> << >>]

\* Vec::resize(rows, vec![None; cols]): keeps the rows it has, appends fresh ones
Resize(lattice, rows, cols) ==
    [r \in 1..rows |-> IF r <= Len(lattice) THEN lattice[r]
                       ELSE [c \in 1..cols |-> NoFeature]]

\* a guard that looks at the flat list instead of the grid
ConfigureGuardVectorOnly(m) == m.feature_vector # << >>
\* the guard of configure: the panic condition
ConfigureMustPanic(m) == m.feature_lattice # << >>

configure(m, rows, cols) ==
    IF ConfigureMustPanic(m)
    THEN [m |-> m, result |-> "Panic"]
    ELSE [m |-> [m EXCEPT !.feature_lattice = Resize(m.feature_lattice, rows, cols),
                          !.number_of_rows = rows,
                          !.number_of_cols = cols],
          result |-> "Ok"]

\* lattice[row][col] with Rust's bounds checks: TRUE when the index is valid
InLattice(lattice, row, col) ==
    /\ row >= 0 /\ row < Len(lattice)
    /\ col >= 0 /\ col < Len(lattice[row + 1])

\* clearing loops that leave every cell as it is
ClearLatticeSkipped(m) == m.feature_lattice

\* the clearing loops of set_fatures over 0..number_of_rows x 0..number_of_cols
ClearLattice(m) ==
    [r \in 1..Len(m.feature_lattice) |->
        [c \in 1..Len(m.feature_lattice[r]) |->
            IF r <= m.number_of_rows /\ c <= m.number_of_cols
            THEN NoFeature ELSE m.feature_lattice[r][c]]]

\* a store that keeps the first occupant of a cell
StoreFirstWins(lattice, feature) ==
    IF lattice[feature.row + 1][feature.col + 1] = NoFeature
    THEN [lattice EXCEPT ![feature.row + 1][feature.col + 1] = <<feature>>]
    ELSE lattice
\* self.feature_lattice[row][col] = Some(feature)
StoreFeature(lattice, feature) ==
    [lattice EXCEPT ![feature.row + 1][feature.col + 1] = <<feature>>]

\* the loop over keypoints.iter().enumerate(), from (Rust) index `index` on
RECURSIVE LoadFeatures(_, _, _, _)
LoadFeatures(m, keypoints, descriptors, index) ==
    IF index >= Len(keypoints)
    THEN [m |-> m, result |-> "Ok"]
    ELSE LET feature == IntensityFeatureNew(keypoints[index + 1],
                                            descriptors[index + 1], index)
             pushed  == [m EXCEPT !.feature_vector = Append(@, feature)]
         IN  IF ~InLattice(m.feature_lattice, feature.row, feature.col)
             THEN [m |-> pushed, result |-> "Panic"]
             ELSE LoadFeatures(
                      [pushed EXCEPT !.feature_lattice = StoreFeature(@, feature)],
                      keypoints, descriptors, index + 1)

\* a set_fatures that checks the counts only after clearing
set_fatures_ClearFirst(m, keypoints, descriptors) ==
    LET cleared == [m EXCEPT !.feature_lattice = ClearLattice(m),
                             !.feature_vector = << >>]
    IN  IF Len(keypoints) # Len(descriptors)
        THEN [m |-> cleared, result |-> "Err"]
        ELSE LoadFeatures(cleared, keypoints, descriptors, 0)

set_fatures(m, keypoints, descriptors) ==
    IF Len(keypoints) # Len(descriptors)
    THEN [m |-> m, result |-> "Err"]
    ELSE LoadFeatures([m EXCEPT !.feature_lattice = ClearLattice(m),
                                !.feature_vector = << >>],
                      keypoints, descriptors, 0)

\* the comparator of sort_feature_vector: TRUE when a orders strictly before b
FeatureLess(a, b) ==
    IF a.row = b.row THEN a.col < b.col ELSE a.row < b.row

\* stable insertion of f into a sorted sequence (Vec::sort_by is stable)
RECURSIVE InsertSorted(_, _)
InsertSorted(s, f) ==
    IF s = << >> THEN <<f>>
    ELSE IF FeatureLess(f, s[Len(s)])
         THEN Append(InsertSorted(SubSeq(s, 1, Len(s) - 1), f), s[Len(s)])
         ELSE Append(s, f)

\* a sort that leaves the list as it is
SortFeaturesSkipped(s) == s

RECURSIVE SortFeatures(_)
SortFeatures(s) ==
    IF s = << >> THEN << >>
    ELSE InsertSorted(SortFeatures(SubSeq(s, 1, Len(s) - 1)), s[Len(s)])

sort_feature_vector(m) ==
    [m EXCEPT !.feature_vector = SortFeatures(m.feature_vector)]

\* prune: the compaction loop from (Rust) index `index` on; yields the list and
\* number_of_unmatched_elements
RECURSIVE PruneLoop(_, _, _, _)
PruneLoop(fv, matched_indices, index, number_of_unmatched_elements) ==
    IF index >= Len(fv)
    THEN [fv |-> fv, n |-> number_of_unmatched_elements]
    ELSE IF index \notin matched_indices
         THEN PruneLoop([fv EXCEPT ![number_of_unmatched_elements + 1] = fv[index + 1]],
                        matched_indices, index + 1, number_of_unmatched_elements + 1)
         ELSE PruneLoop(fv, matched_indices, index + 1, number_of_unmatched_elements)

\* a prune that forgets the final truncate
pruneNoTruncate(m, matched_indices) ==
    [m EXCEPT !.feature_vector = PruneLoop(m.feature_vector, matched_indices, 0, 0).fv]

prune(m, matched_indices) ==
    LET r == PruneLoop(m.feature_vector, matched_indices, 0, 0)
    IN  [m EXCEPT !.feature_vector = SubSeq(r.fv, 1, r.n)]

(***************************************************************************)
(* Specification of one lattice instance: any sequence of calls.          *)
(***************************************************************************)
SeqsUpTo(S, n) == UNION {[1..k -> S] : k \in 0..n}

Alive == call.result # "Panic"

NoReturn == [left_key_points |-> << >>, right_key_points |-> << >>]

\* no StereoFramepoint::new call has begun
IdleThreads == [t \in Threads |-> [pc |-> "idle", calls |-> 0, r |-> << >>]]

\* no get_epipolar_matches call is being followed step by step
NoSweep == [pc |-> "idle"]

\* the image size of the generator specifications
ModelImage == [width |-> ImageWidth, height |-> ImageHeight]

InitLattice ==
    /\ cfg = DefaultCfg
    /\ image = ModelImage
    /\ sweep = NoSweep
    /\ IDENTIFIER = 0
    /\ threads = IdleThreads
    /\ framepoints = << >>
    /\ matcher = DefaultMatcher
    /\ call = [op |-> "default", result |-> "Ok", arg |-> << >>]
    /\ feature_matcher_left = DefaultMatcher
    /\ feature_matcher_right = DefaultMatcher
    /\ current_maximum_descriptor_distance_triangulation = 0
    /\ epipolar_search_distance = << >>
    /\ accepted = << >>
    /\ returned = NoReturn
    /\ survivors = << >>
    /\ detectors = << >>
    /\ number_of_detected_keypoints = 0
    /\ frame = << >>
    /\ detections = << >>
    /\ fpg_detectors = << >>

Configure ==
    /\ Alive
    /\ \E rows \in 1..MaxGridDim, cols \in 1..MaxGridDim :
          \E r \in {configure(matcher, rows, cols)} :
              /\ matcher' = r.m
              /\ call' = [op |-> "configure", result |-> r.result,
                          arg |-> <<rows, cols>>]
    /\ UNCHANGED <<cfgVars, sweep, pointVars, matchVars, detectVars>>

SetFeatures ==
    /\ Alive
    /\ \E keypoints \in SeqsUpTo(LatticeKeypoints, MaxLatticeKeypoints),
          descriptors \in SeqsUpTo(LatticeDescriptors, MaxLatticeKeypoints) :
          \E r \in {set_fatures(matcher, keypoints, descriptors)} :
              /\ matcher' = r.m
              /\ call' = [op |-> "set_features", result |-> r.result,
                          arg |-> <<Len(keypoints), Len(descriptors), keypoints>>]
    /\ UNCHANGED <<cfgVars, sweep, pointVars, matchVars, detectVars>>

SortFeatureVector ==
    /\ Alive
    /\ matcher' = sort_feature_vector(matcher)
    /\ call' = [op |-> "sort_feature_vector", result |-> "Ok", arg |-> << >>]
    /\ UNCHANGED <<cfgVars, sweep, pointVars, matchVars, detectVars>>

\* matched-index sets are sets of indices into the flat list
Prune ==
    /\ Alive
    /\ \E matched_indices \in SUBSET (0..(Len(matcher.feature_vector) - 1)) :
          /\ matcher' = prune(matcher, matched_indices)
          /\ call' = [op |-> "prune", result |-> "Ok", arg |-> matched_indices]
    /\ UNCHANGED <<cfgVars, sweep, pointVars, matchVars, detectVars>>

NextLattice == Configure \/ SetFeatures \/ SortFeatureVector \/ Prune

SpecLattice == InitLattice /\ [][NextLattice]_vars

(***************************************************************************)
(* StereoFramePointGenerator: epipolar matching                            *)
(* A descriptor is modelled by a number k: the 256 bit string whose first  *)
(* k bits are set.  Distances and max_dist are counted in tenths.          *)
(***************************************************************************)
\* norm2(a, b, NORM_HAMMING): the number of differing bits
Hamming(a, b) == IF a >= b THEN a - b ELSE b - a

DistanceTenths(a, b) == 10 * Hamming(a, b)

\* 0.1 * 256f32, in tenths
BootstrapMaxDist == 256

\* a finalize that starts the generator at the configured
\* maximum_matching_distance_triangulation
InitialMaxDistFromCfg(c) == c.maximum_matching_distance_triangulation * 10

\* current_maximum_descriptor_distance_triangulation as finalize sets it for
\* the configuration c
InitialMaxDist(c) == BootstrapMaxDist

\* the offsets built by finalize: 0, then i and -i for i in 1..maximum
RECURSIVE OffsetsFrom(_, _)
OffsetsFrom(i, maximum) ==
    IF i >= maximum THEN << >>
    ELSE <<i, -i>> \o OffsetsFrom(i + 1, maximum)

EpipolarSearchOffsets(maximum_epipolar_search_offset_pixels) ==
    <<0>> \o OffsetsFrom(1, maximum_epipolar_search_offset_pixels)

\* while features_left[index_l].row < features_right[index_r].row + offset;
\* yields the new index_l, Len(fl) standing for `break 'out`
RECURSIVE SkipLeft(_, _, _, _, _)
SkipLeft(fl, fr, index_l, index_r, epipolar_offset) ==
    IF fl[index_l + 1].row < fr[index_r + 1].row + epipolar_offset
    THEN IF index_l + 1 = Len(fl) THEN Len(fl)
         ELSE SkipLeft(fl, fr, index_l + 1, index_r, epipolar_offset)
    ELSE index_l

\* while feature_left.row > features_right[index_r].row + offset;
\* yields the new index_r, Len(fr) standing for `break 'out`
RECURSIVE SkipRight(_, _, _, _)
SkipRight(feature_left, fr, index_r, epipolar_offset) ==
    IF feature_left.row > fr[index_r + 1].row + epipolar_offset
    THEN IF index_r + 1 = Len(fr) THEN Len(fr)
         ELSE SkipRight(feature_left, fr, index_r + 1, epipolar_offset)
    ELSE index_r

\* a column test that never stops the search
ColumnNeverBehind(feature_left, feature_right) == FALSE
\* if feature_left.col - features_right[index_search_r].col < 0 { break }
ColumnBehind(feature_left, feature_right) ==
    feature_left.col - feature_right.col < 0

\* a comparison that lets a later candidate at the same distance win
BetterOrEqual(descriptor_distance, descriptor_distance_best) ==
    descriptor_distance <= descriptor_distance_best
\* if descriptor_distance < descriptor_distance_best as f64
Better(descriptor_distance, descriptor_distance_best) ==
    descriptor_distance < descriptor_distance_best

\* the search loop over the right features on the epipolar line
RECURSIVE SearchRight(_, _, _, _, _, _)
SearchRight(feature_left, fr, index_search_r, descriptor_distance_best, index_best_r, epipolar_offset) ==
    LET here == [descriptor_distance_best |-> descriptor_distance_best,
                 index_best_r |-> index_best_r]
    IN
    IF feature_left.row = fr[index_search_r + 1].row + epipolar_offset
    THEN IF ColumnBehind(feature_left, fr[index_search_r + 1])
         THEN here
         ELSE LET descriptor_distance ==
                      DistanceTenths(feature_left.descriptor,
                                     fr[index_search_r + 1].descriptor)
                  better == Better(descriptor_distance, descriptor_distance_best)
                  best   == IF better THEN descriptor_distance
                            ELSE descriptor_distance_best
                  ibest  == IF better THEN index_search_r ELSE index_best_r
              IN  IF index_search_r + 1 = Len(fr)
                  THEN [descriptor_distance_best |-> best, index_best_r |-> ibest]
                  ELSE SearchRight(feature_left, fr, index_search_r + 1, best,
                                   ibest, epipolar_offset)
    ELSE here

\* an acceptance test that lets the threshold itself pass
AcceptAtThreshold(descriptor_distance_best, max_dist) ==
    descriptor_distance_best <= max_dist
\* if descriptor_distance_best < self.current_maximum_descriptor_distance_triangulation
Accept(descriptor_distance_best, max_dist) ==
    descriptor_distance_best < max_dist

\* a right pointer that goes back to the start of the list
RestartRight(index_best_r) == 0
\* a right pointer that stays on the accepted feature
StayOnBest(index_best_r) == index_best_r
\* index_r = index_best_r + 1
AdvanceRight(index_best_r) == index_best_r + 1

SweepStart ==
    [index_l |-> 0, index_r |-> 0,
     matched_indices_left |-> {}, matched_indices_right |-> {},
     pairs |-> << >>]

\* the 'out loop, from the pointers in s on
RECURSIVE Sweep(_, _, _, _, _)
Sweep(fl, fr, epipolar_offset, max_dist, s) ==
    IF ~(s.index_l < Len(fl)) THEN s
    ELSE IF s.index_r = Len(fr) THEN s
    ELSE
    LET index_l == SkipLeft(fl, fr, s.index_l, s.index_r, epipolar_offset)
    IN
    IF index_l = Len(fl) THEN s
    ELSE
    LET feature_left == fl[index_l + 1]
        index_r == SkipRight(feature_left, fr, s.index_r, epipolar_offset)
    IN
    IF index_r = Len(fr) THEN s
    ELSE
    LET found == SearchRight(feature_left, fr, index_r, max_dist, 0, epipolar_offset)
    IN
    IF Accept(found.descriptor_distance_best, max_dist)
    THEN Sweep(fl, fr, epipolar_offset, max_dist,
               [index_l |-> index_l + 1,
                index_r |-> AdvanceRight(found.index_best_r),
                matched_indices_left  |-> s.matched_indices_left \cup {index_l},
                matched_indices_right |-> s.matched_indices_right
                                            \cup {found.index_best_r},
                pairs |-> Append(s.pairs,
                            [left     |-> feature_left,
                             right    |-> fr[found.index_best_r + 1],
                             offset   |-> epipolar_offset,
                             distance |-> found.descriptor_distance_best,
                             max_dist |-> max_dist])])
    ELSE Sweep(fl, fr, epipolar_offset, max_dist,
               [s EXCEPT !.index_l = index_l + 1, !.index_r = index_r])

\* BTreeSet iteration: the indices in increasing order
RECURSIVE Ascending(_)
Ascending(S) ==
    IF S = {} THEN << >>
    ELSE LET least == CHOOSE i \in S : \A j \in S : i <= j
         IN  <<least>> \o Ascending(S \ {least})

KeypointsAt(fv, indices) ==
    LET order == Ascending(indices)
    IN  [k \in 1..Len(order) |-> fv[order[k] + 1].keypoint]

\* self.feature_matcher_right.prune(&matched_indices_right)
PruneRight(m, matched_indices) == prune(m, matched_indices)

\* what get_epipolar_matches does after the sweep s over the sorted lists
AfterSweep(sorted_left, sorted_right, s) ==
    [left  |-> prune(sorted_left, s.matched_indices_left),
     right |-> PruneRight(sorted_right, s.matched_indices_right),
     pairs |-> s.pairs,
     left_key_points  |-> KeypointsAt(sorted_left.feature_vector,
                                      s.matched_indices_left),
     right_key_points |-> KeypointsAt(sorted_right.feature_vector,
                                      s.matched_indices_right)]

SweepSorted(sorted_left, sorted_right, max_dist, epipolar_offset) ==
    AfterSweep(sorted_left, sorted_right,
               Sweep(sorted_left.feature_vector, sorted_right.feature_vector,
                     epipolar_offset, max_dist, SweepStart))

get_epipolar_matches(left, right, max_dist, epipolar_offset) ==
    SweepSorted(sort_feature_vector(left), sort_feature_vector(right),
                max_dist, epipolar_offset)

\* minimum_disparity_pixels of the default configuration
minimum_disparity_pixels == 1

\* a filter that drops only non-positive disparities
DisparityNotPositive(disparity) == disparity <= 0
\* if disparity < self.minimum_disparity_pixels { continue }
DisparityTooSmall(disparity) == disparity < minimum_disparity_pixels * SubPixel

\* for (feature_left, feature_right) in features_left.iter().zip(features_right.iter())
Zip(a, b) == [k \in 1..Min(Len(a), Len(b)) |-> [left |-> a[k], right |-> b[k]]]

KeptPairs(left_key_points, right_key_points) ==
    LET zipped == Zip(left_key_points, right_key_points)
        IsKept(p) == ~DisparityTooSmall(p.left.x - p.right.x)
    IN  SelectSeq(zipped, IsKept)

\* the loop over epipolar_search_distance, from position k on; g carries the two
\* lattices and what the passes produced
\* one iteration's effect: r is what get_epipolar_matches returned
AfterPass(g, r) ==
    [left      |-> r.left,
     right     |-> r.right,
     pairs     |-> g.pairs \o r.pairs,
     returned  |-> [left_key_points  |-> r.left_key_points,
                    right_key_points |-> r.right_key_points],
     survivors |-> g.survivors \o KeptPairs(r.left_key_points, r.right_key_points)]

RECURSIVE FramePointLoop(_, _, _, _)
FramePointLoop(g, offsets, max_dist, k) ==
    IF k > Len(offsets) THEN g
    ELSE FramePointLoop(
             AfterPass(g, get_epipolar_matches(g.left, g.right, max_dist, offsets[k])),
             offsets, max_dist, k + 1)

compute_frame_point(left, right, offsets, max_dist, last_returned) ==
    FramePointLoop([left |-> left, right |-> right, pairs |-> << >>,
                    returned |-> last_returned, survivors |-> << >>],
                   offsets, max_dist, 1)

(***************************************************************************)
(* StereoFramePointGenerator: the detector region grid and its threshold   *)
(* controller.  A region's f32 `threshold` is counted in units of          *)
(* 1 / ThresholdScale; the detector's own threshold is an integer.  The    *)
(* arithmetic is exact rational arithmetic (f32 rounding is not modelled). *)
(***************************************************************************)
number_of_detectors ==
    cfg.number_of_detectors_horizontal * cfg.number_of_detectors_vertical

\* (width / bin).floor() + 1 times (height / bin).floor() + 1
target_number_of_keypoints ==
    ((image.width \div BinSizePixels) + 1) * ((image.height \div BinSizePixels) + 1)

\* target_number_of_keypoints_per_detector is
\* target_number_of_keypoints / number_of_detectors, so
\* delta = DeltaNum(count) / target_number_of_keypoints
DeltaNum(count) == count * number_of_detectors - target_number_of_keypoints

ThresholdScale == MaxChangeDen * target_number_of_keypoints

\* (c * pixels_per_detector).round() for pixels_per_detector = size / n
RoundedOrigin(c, size, n) == (2 * c * size + n) \div (2 * n)

\* the regions of finalize, row by row
DetectorRegion(k) ==
    LET r == (k - 1) \div cfg.number_of_detectors_horizontal
        c == (k - 1) % cfg.number_of_detectors_horizontal
    IN  [x      |-> RoundedOrigin(c, image.width, cfg.number_of_detectors_horizontal),
         y      |-> RoundedOrigin(r, image.height, cfg.number_of_detectors_vertical),
         width  |-> image.width \div cfg.number_of_detectors_horizontal,
         height |-> image.height \div cfg.number_of_detectors_vertical]

\* the detectors finalize builds: every threshold is detector_threshold_minimum
FinalizedDetectors ==
    [k \in 1..number_of_detectors |->
        [detector_threshold |-> detector_threshold_minimum,
         region             |-> DetectorRegion(k),
         threshold          |-> detector_threshold_minimum * ThresholdScale]]

\* delta < -tolerance, delta > tolerance
BelowTarget(count) ==
    ToleranceDen * DeltaNum(count) < -(ToleranceNum * target_number_of_keypoints)
AboveTarget(count) ==
    ToleranceDen * DeltaNum(count) > ToleranceNum * target_number_of_keypoints

\* delta.max(maximum_change) and delta.min(maximum_change), in 1 / ThresholdScale
ChangeBelow(count) ==
    Max(DeltaNum(count) * MaxChangeDen, MaxChangeNum * target_number_of_keypoints)
\* an increase that is not capped at the maximum change
ChangeAboveUncapped(count) == DeltaNum(count) * MaxChangeDen
ChangeAbove(count) ==
    Min(DeltaNum(count) * MaxChangeDen, MaxChangeNum * target_number_of_keypoints)

\* a decrement without the .min(-1.0)
StepDownUnclamped(product) == product
\* (change * detector_threshold).min(-1.0)
StepDown(product) == Min(product, -ThresholdScale)

\* (change * detector_threshold).max(1.0)
StepUp(product) == Max(product, ThresholdScale)

\* the threshold detect_keypoints stores for a region whose detector runs with
\* detector_threshold and returned count keypoints
AdjustedThreshold(detector_threshold, count) ==
    IF BelowTarget(count)
    THEN LET lowered == detector_threshold * ThresholdScale
                        + StepDown(ChangeBelow(count) * detector_threshold)
         IN  IF lowered < detector_threshold_minimum * ThresholdScale
             THEN detector_threshold_minimum * ThresholdScale
             ELSE lowered
    ELSE IF AboveTarget(count)
         THEN detector_threshold * ThresholdScale
              + StepUp(ChangeAbove(count) * detector_threshold)
         ELSE detector_threshold * ThresholdScale

\* the keypoints of one region, moved by the region's top left corner; the
\* detection capability is taken to report every keypoint at the region's origin
RegionKeypoints(region, count) ==
    [i \in 1..count |-> [x |-> region.x * SubPixel, y |-> region.y * SubPixel]]

RECURSIVE Concat(_)
Concat(seqs) ==
    IF seqs = << >> THEN << >> ELSE Head(seqs) \o Concat(Tail(seqs))

\* a detect_keypoints that starts from the threshold stored by the last
\* detection instead of the one the detector holds
detect_keypointsFromStored(dets, counts) ==
    [detectors  |-> [k \in 1..Len(dets) |->
                        [dets[k] EXCEPT !.threshold =
                            AdjustedThreshold(dets[k].threshold \div ThresholdScale,
                                              counts[k])]],
     key_points |-> Concat([k \in 1..Len(dets) |->
                               RegionKeypoints(dets[k].region, counts[k])])]

\* detect_keypoints: counts[k] is the number of keypoints region k's detector
\* returns; yields the detectors with their stored thresholds and the keypoints
detect_keypoints(dets, counts) ==
    [detectors  |-> [k \in 1..Len(dets) |->
                        [dets[k] EXCEPT !.threshold =
                            AdjustedThreshold(dets[k].detector_threshold, counts[k])]],
     key_points |-> Concat([k \in 1..Len(dets) |->
                               RegionKeypoints(dets[k].region, counts[k])])]

\* detector.set_threshold(*threshold as _): f32 to i32 truncates
adjust_detector_thresholds(dets) ==
    [k \in 1..Len(dets) |->
        [dets[k] EXCEPT !.detector_threshold = dets[k].threshold \div ThresholdScale]]

\* what one detect_keypoints call saw and stored, per region
Detection(before, after, counts) ==
    [counts |-> counts,
     pre    |-> [k \in 1..Len(before) |-> before[k].detector_threshold],
     post   |-> [k \in 1..Len(after) |-> after[k].threshold]]

\* the descriptor extraction capability: one row per keypoint
compute_descriptors(keypoints) == [k \in 1..Len(keypoints) |-> 0]

\* Frame::new
NewFrame(status) ==
    [keypoints_left |-> << >>, keypoints_right |-> << >>,
     descriptors_left |-> << >>, descriptors_right |-> << >>,
     number_of_detected_keypoints |-> 0,
     status |-> status]

\* a Tracking update without the .max(0.1 * 256)
NextMaxDistNoFloor(status, detected, max_dist) ==
    IF status = "Localizing"
    THEN BootstrapMaxDist
    ELSE (Min(detected, target_number_of_keypoints) * max_dist)
             \div target_number_of_keypoints

\* the max_dist initialize sets: 0.1 * 256 when localizing, else
\* (min(detected / target, 1.0) * max_dist).max(0.1 * 256)
NextMaxDist(status, detected, max_dist) ==
    IF status = "Localizing"
    THEN BootstrapMaxDist
    ELSE Max((Min(detected, target_number_of_keypoints) * max_dist)
                 \div target_number_of_keypoints,
             BootstrapMaxDist)

\* the generator state: g = [detectors, number_of_detected_keypoints, max_dist,
\* left, right]

\* an extract_features block that pushes the thresholds between the detections
ExtractFeaturesPushBetween(g, f, counts_left, counts_right) ==
    LET left      == detect_keypoints(g.detectors, counts_left)
        pushed    == adjust_detector_thresholds(left.detectors)
        right     == detect_keypoints(pushed, counts_right)
        detected  == (Len(left.key_points) + Len(right.key_points)) \div 2
    IN  [g |-> [g EXCEPT
                  !.detectors = adjust_detector_thresholds(right.detectors),
                  !.number_of_detected_keypoints = detected,
                  !.max_dist = NextMaxDist(f.status, detected, g.max_dist)],
         frame |-> [f EXCEPT
                  !.keypoints_left = left.key_points,
                  !.keypoints_right = right.key_points,
                  !.number_of_detected_keypoints = detected,
                  !.descriptors_left = compute_descriptors(left.key_points),
                  !.descriptors_right = compute_descriptors(right.key_points)],
         detections |-> <<Detection(g.detectors, left.detectors, counts_left),
                          Detection(pushed, right.detectors, counts_right)>>]

\* the extract_features block of initialize
ExtractFeatures(g, f, counts_left, counts_right) ==
    LET left      == detect_keypoints(g.detectors, counts_left)
        right     == detect_keypoints(left.detectors, counts_right)
        detected  == (Len(left.key_points) + Len(right.key_points)) \div 2
    IN  [g |-> [g EXCEPT
                  !.detectors = adjust_detector_thresholds(right.detectors),
                  !.number_of_detected_keypoints = detected,
                  !.max_dist = NextMaxDist(f.status, detected, g.max_dist)],
         frame |-> [f EXCEPT
                  !.keypoints_left = left.key_points,
                  !.keypoints_right = right.key_points,
                  !.number_of_detected_keypoints = detected,
                  !.descriptors_left = compute_descriptors(left.key_points),
                  !.descriptors_right = compute_descriptors(right.key_points)],
         detections |-> <<Detection(g.detectors, left.detectors, counts_left),
                          Detection(left.detectors, right.detectors, counts_right)>>]

\* an initialize that refuses a frame with no keypoints on one side
LoadLatticesNonEmpty(e) ==
    [g |-> e.g, frame |-> e.frame, detections |-> e.detections,
     result |-> IF Len(e.frame.keypoints_left) = 0 \/ Len(e.frame.keypoints_right) = 0
                THEN "Err" ELSE "Ok"]

\* the two set_fatures calls that end initialize
LoadLattices(e) ==
    LET l == set_fatures(e.g.left, e.frame.keypoints_left, e.frame.descriptors_left)
        rr == set_fatures(e.g.right, e.frame.keypoints_right, e.frame.descriptors_right)
    IN  [g |-> [e.g EXCEPT !.left = l.m,
                           !.right = IF l.result = "Ok" THEN rr.m ELSE @],
         frame |-> e.frame,
         detections |-> e.detections,
         result |-> IF l.result # "Ok" THEN l.result ELSE rr.result]

\* an initialize that forgets the keypoint count when it extracts none
initializeForgetCount(g, f, extract_features, counts_left, counts_right) ==
    IF extract_features
    THEN LoadLattices(ExtractFeatures(g, f, counts_left, counts_right))
    ELSE LoadLattices([g |-> [g EXCEPT !.number_of_detected_keypoints = 0],
                       frame |-> f, detections |-> << >>])

initialize(g, f, extract_features, counts_left, counts_right) ==
    IF extract_features
    THEN LoadLattices(ExtractFeatures(g, f, counts_left, counts_right))
    ELSE LoadLattices([g |-> g, frame |-> f, detections |-> << >>])

(***************************************************************************)
(* Specification of the matching of one frame: finalize, initialize with   *)
(* the frame's keypoints and descriptors, then any sequence of             *)
(* get_epipolar_matches and compute_frame_point calls.                     *)
(***************************************************************************)
\* keypoints (coordinates in 1/SubPixel pixel) a frame may hold
MatchKeypoints ==
    {[x |-> 0, y |-> 0], [x |-> 1, y |-> 0], [x |-> 2, y |-> 0], [x |-> 2, y |-> 2]}
\* descriptors of left and right features
LeftDescriptors == {10, 40}
RightDescriptors == {0, 30}
\* offsets handed to get_epipolar_matches directly
MatchOffsets == {-1, 0, 1}

\* the frame's keypoints with one descriptor row each
FeatureLists(descriptors) ==
    SeqsUpTo([keypoint : MatchKeypoints, descriptor : descriptors], MaxMatchKeypoints)

KeypointsOf(features) == [k \in 1..Len(features) |-> features[k].keypoint]
DescriptorsOf(features) == [k \in 1..Len(features) |-> features[k].descriptor]

\* the state finalize returns
InitMatch ==
    /\ \E maximum \in 0..MaxSearchOffset :
          cfg = [DefaultCfg EXCEPT !.maximum_epipolar_search_offset_pixels = maximum]
    /\ image = ModelImage
    /\ sweep = NoSweep
    /\ IDENTIFIER = 0
    /\ threads = IdleThreads
    /\ framepoints = << >>
    /\ matcher = DefaultMatcher
    /\ call = [op |-> "finalize", result |-> finalize(cfg, image.width, image.height),
               arg |-> << >>]
    /\ feature_matcher_left = configure(DefaultMatcher, image.height, image.width).m
    /\ feature_matcher_right = configure(DefaultMatcher, image.height, image.width).m
    /\ current_maximum_descriptor_distance_triangulation = InitialMaxDist(cfg)
    /\ epipolar_search_distance =
           EpipolarSearchOffsets(cfg.maximum_epipolar_search_offset_pixels)
    /\ accepted = << >>
    /\ returned = NoReturn
    /\ survivors = << >>
    /\ detectors = FinalizedDetectors
    /\ number_of_detected_keypoints = 0
    /\ frame = << >>
    /\ detections = << >>
    /\ fpg_detectors = << >>

\* initialize(frame, extract_features = false) on the frame's features
Initialize ==
    /\ call.op = "finalize"
    /\ \E features_left \in FeatureLists(LeftDescriptors),
          features_right \in FeatureLists(RightDescriptors) :
          \E l \in {set_fatures(feature_matcher_left, KeypointsOf(features_left),
                                 DescriptorsOf(features_left))},
             r \in {set_fatures(feature_matcher_right, KeypointsOf(features_right),
                                 DescriptorsOf(features_right))} :
              /\ feature_matcher_left' = l.m
              /\ feature_matcher_right' = r.m
              /\ call' = [op |-> "initialize", result |-> "Ok", arg |-> << >>]
    /\ accepted' = << >>
    /\ returned' = NoReturn
    /\ survivors' = << >>
    /\ UNCHANGED <<cfgVars, sweep, pointVars, matcher, current_maximum_descriptor_distance_triangulation,
                   epipolar_search_distance, detectVars>>

GetEpipolarMatches ==
    /\ call.op # "finalize"
    /\ \E epipolar_offset \in MatchOffsets :
          \E r \in {get_epipolar_matches(
                       feature_matcher_left, feature_matcher_right,
                       current_maximum_descriptor_distance_triangulation,
                       epipolar_offset)} :
              /\ feature_matcher_left' = r.left
              /\ feature_matcher_right' = r.right
              /\ accepted' = accepted \o r.pairs
              /\ returned' = [left_key_points  |-> r.left_key_points,
                              right_key_points |-> r.right_key_points]
              /\ call' = [op |-> "get_epipolar_matches", result |-> "Ok",
                          arg |-> epipolar_offset]
    /\ UNCHANGED <<cfgVars, sweep, pointVars, matcher, current_maximum_descriptor_distance_triangulation,
                   epipolar_search_distance, survivors, detectVars>>

ComputeFramePoint ==
    /\ call.op # "finalize"
    /\ \E g \in {compute_frame_point(
                     feature_matcher_left, feature_matcher_right,
                     epipolar_search_distance,
                     current_maximum_descriptor_distance_triangulation, returned)} :
           /\ feature_matcher_left' = g.left
           /\ feature_matcher_right' = g.right
           /\ accepted' = accepted \o g.pairs
           /\ returned' = g.returned
           /\ survivors' = g.survivors
           /\ call' = [op |-> "compute_frame_point", result |-> "Ok",
                       arg |-> Len(g.pairs)]
    /\ UNCHANGED <<cfgVars, sweep, pointVars, matcher, current_maximum_descriptor_distance_triangulation,
                   epipolar_search_distance, detectVars>>

NextMatch == Initialize \/ GetEpipolarMatches \/ ComputeFramePoint

SpecMatch == InitMatch /\ [][NextMatch]_vars

(***************************************************************************)
(* Specification of the detection: finalize, then any sequence of          *)
(* initialize calls on fresh frames (extract_features = true), on the last *)
(* frame again (extract_features = false), adjust_detector_thresholds, and *)
(* detect_keypoints on a FramePointGenerator.                              *)
(***************************************************************************)
\* keypoint counts a region's detector may return: none, the per-region target
\* of the model's image, twice as many
DetectCounts == {0, 4, 8}

\* number_of_detectors_vertical and number_of_detectors_horizontal a
\* configuration may hold
GridDims == {0, 1}

RegionCounts == [1..number_of_detectors -> DetectCounts]

FrameStatus == {"Localizing", "Tracking"}

Generator ==
    [detectors |-> detectors,
     number_of_detected_keypoints |-> number_of_detected_keypoints,
     max_dist |-> current_maximum_descriptor_distance_triangulation,
     left |-> feature_matcher_left,
     right |-> feature_matcher_right]

InitDetect ==
    /\ \E vertical \in GridDims, horizontal \in GridDims :
          cfg = [DefaultCfg EXCEPT !.number_of_detectors_vertical = vertical,
                                   !.number_of_detectors_horizontal = horizontal]
    /\ image = ModelImage
    /\ sweep = NoSweep
    /\ IDENTIFIER = 0
    /\ threads = IdleThreads
    /\ framepoints = << >>
    /\ matcher = DefaultMatcher
    /\ call = [op |-> "finalize", result |-> finalize(cfg, image.width, image.height),
               arg |-> << >>]
    /\ feature_matcher_left = configure(DefaultMatcher, image.height, image.width).m
    /\ feature_matcher_right = configure(DefaultMatcher, image.height, image.width).m
    /\ current_maximum_descriptor_distance_triangulation = InitialMaxDist(cfg)
    /\ epipolar_search_distance =
           EpipolarSearchOffsets(cfg.maximum_epipolar_search_offset_pixels)
    /\ accepted = << >>
    /\ returned = NoReturn
    /\ survivors = << >>
    /\ detectors = FinalizedDetectors
    /\ number_of_detected_keypoints = 0
    /\ frame = NewFrame("Localizing")
    /\ detections = << >>
    /\ fpg_detectors = FinalizedDetectors

\* the generator and frame variables after an initialize that yielded r
InitializeEffect(r) ==
    /\ detectors' = r.g.detectors
    /\ number_of_detected_keypoints' = r.g.number_of_detected_keypoints
    /\ current_maximum_descriptor_distance_triangulation' = r.g.max_dist
    /\ feature_matcher_left' = r.g.left
    /\ feature_matcher_right' = r.g.right
    /\ frame' = r.frame
    /\ detections' = r.detections
    /\ accepted' = << >>
    /\ UNCHANGED <<cfgVars, sweep, pointVars, matcher, epipolar_search_distance, returned, survivors,
                   fpg_detectors>>

InitializeExtract ==
    /\ \A k \in 1..Len(detectors) : detectors[k].detector_threshold <= ThresholdCap
    /\ \E status \in FrameStatus, counts_left \in RegionCounts,
          counts_right \in RegionCounts :
          \E r \in {initialize(Generator, NewFrame(status), TRUE,
                                counts_left, counts_right)} :
              /\ InitializeEffect(r)
              /\ call' = [op |-> "initialize", result |-> r.result, arg |-> TRUE]

InitializeNoExtract ==
    /\ \E r \in {initialize(Generator, frame, FALSE, << >>, << >>)} :
          /\ InitializeEffect(r)
          /\ call' = [op |-> "initialize", result |-> r.result, arg |-> FALSE]

AdjustDetectorThresholds ==
    /\ detectors' = adjust_detector_thresholds(detectors)
    /\ call' = [op |-> "adjust_detector_thresholds", result |-> "Ok", arg |-> << >>]
    /\ UNCHANGED <<cfgVars, sweep, pointVars, matcher, matchVars, number_of_detected_keypoints, frame,
                   detections, fpg_detectors>>

\* keypoint counts a FramePointGenerator region's detector may return: also one
\* a little above the per-region target of the model's image
FpgCounts == DetectCounts \cup {5}

FpgRegionCounts == [1..number_of_detectors -> FpgCounts]

\* FramePointGenerator::detect_keypoints
DetectKeypoints ==
    /\ \E counts \in FpgRegionCounts :
          \E r \in {detect_keypoints(fpg_detectors, counts)} :
              /\ fpg_detectors' = r.detectors
              /\ detections' = <<Detection(fpg_detectors, r.detectors, counts)>>
              /\ call' = [op |-> "detect_keypoints", result |-> "Ok", arg |-> counts]
    /\ UNCHANGED <<cfgVars, sweep, pointVars, matcher, matchVars, detectors, number_of_detected_keypoints, frame>>

NextDetect ==
    \/ InitializeExtract
    \/ InitializeNoExtract
    \/ AdjustDetectorThresholds
    \/ DetectKeypoints

SpecDetect == InitDetect /\ [][NextDetect]_vars

(***************************************************************************)
(* Specification of the triangulation distance over successive frames:     *)
(* finalize for any configured maximum_matching_distance_triangulation,    *)
(* then any sequence of initialize calls.                                  *)
(***************************************************************************)
\* maximum_matching_distance_triangulation a configuration may hold: the
\* default, a smaller and a larger one
ConfiguredMaxDist == {maximum_matching_distance_triangulation_default, 20, 102}

InitTriangulation ==
    /\ \E configured \in ConfiguredMaxDist :
          cfg = [DefaultCfg EXCEPT !.maximum_matching_distance_triangulation = configured]
    /\ image = ModelImage
    /\ sweep = NoSweep
    /\ IDENTIFIER = 0
    /\ threads = IdleThreads
    /\ framepoints = << >>
    /\ matcher = DefaultMatcher
    /\ call = [op |-> "finalize", result |-> finalize(cfg, image.width, image.height),
               arg |-> << >>]
    /\ feature_matcher_left = configure(DefaultMatcher, image.height, image.width).m
    /\ feature_matcher_right = configure(DefaultMatcher, image.height, image.width).m
    /\ current_maximum_descriptor_distance_triangulation = InitialMaxDist(cfg)
    /\ epipolar_search_distance =
           EpipolarSearchOffsets(cfg.maximum_epipolar_search_offset_pixels)
    /\ accepted = << >>
    /\ returned = NoReturn
    /\ survivors = << >>
    /\ detectors = FinalizedDetectors
    /\ number_of_detected_keypoints = 0
    /\ frame = NewFrame("Localizing")
    /\ detections = << >>
    /\ fpg_detectors = FinalizedDetectors

NextTriangulation == InitializeExtract \/ InitializeNoExtract

SpecTriangulation == InitTriangulation /\ [][NextTriangulation]_vars

(***************************************************************************)
(* Specification of frames that are initialized again without extraction:  *)
(* finalize, then any sequence of initialize(frame, true),                 *)
(* initialize(frame, false) on the frame as it is, and matching passes,    *)
(* which prune the lattices' flat lists in between.                        *)
(***************************************************************************)
NextReload == InitializeExtract \/ InitializeNoExtract \/ GetEpipolarMatches

SpecReload == InitDetect /\ [][NextReload]_vars

(***************************************************************************)
(* Specification of a FramePointGenerator alone: finalize for any image    *)
(* size and grid shape with at most one detector per pixel row and column, *)
(* then any sequence of detect_keypoints calls.                            *)
(***************************************************************************)
InitFpg ==
    /\ \E width \in 1..MaxImageSize, height \in 1..MaxImageSize :
          image = [width |-> width, height |-> height]
    /\ sweep = NoSweep
    /\ \E vertical \in 1..MaxGridShape, horizontal \in 1..MaxGridShape :
          /\ vertical <= image.height
          /\ horizontal <= image.width
          /\ cfg = [DefaultCfg EXCEPT !.number_of_detectors_vertical = vertical,
                                      !.number_of_detectors_horizontal = horizontal]
    /\ IDENTIFIER = 0
    /\ threads = IdleThreads
    /\ framepoints = << >>
    /\ matcher = DefaultMatcher
    /\ call = [op |-> "finalize", result |-> finalize(cfg, image.width, image.height),
               arg |-> << >>]
    /\ feature_matcher_left = DefaultMatcher
    /\ feature_matcher_right = DefaultMatcher
    /\ current_maximum_descriptor_distance_triangulation = 0
    /\ epipolar_search_distance = << >>
    /\ accepted = << >>
    /\ returned = NoReturn
    /\ survivors = << >>
    /\ detectors = << >>
    /\ number_of_detected_keypoints = 0
    /\ frame = << >>
    /\ detections = << >>
    /\ fpg_detectors = FinalizedDetectors

NextFpg == DetectKeypoints

SpecFpg == InitFpg /\ [][NextFpg]_vars

(***************************************************************************)
(* The two-pointer sweep of get_epipolar_matches step by step: one action  *)
(* per loop test or loop body, every read of a feature list bounds-checked *)
(* as Rust's indexing is (a read at an index >= len panics).               *)
(***************************************************************************)
\* keypoints (coordinates in 1/SubPixel pixel) and descriptors of the lists
SweepKeypoints == {[x |-> 0, y |-> 0], [x |-> 2, y |-> 0], [x |-> 0, y |-> 2]}
SweepDescriptorsLeft == {10}
SweepDescriptorsRight == {0, 40}

SweepLists(descriptors) ==
    SeqsUpTo([keypoint : SweepKeypoints, descriptor : descriptors], MaxSweepKeypoints)

\* the flat list set_fatures builds from the features, sorted as lines 250-251 do
SortedFeatureVector(features) ==
    SortFeatures([i \in 1..Len(features) |->
                     IntensityFeatureNew(features[i].keypoint,
                                         features[i].descriptor, i - 1)])

\* a loop exit test that never fires
ExhaustedNever(index, fv) == FALSE
\* if index_l == features_left.len(), if index_r == features_right.len()
Exhausted(index, fv) == index = Len(fv)

\* fv[index] is inside the list
ReadOk(fv, index) == index < Len(fv)

InitSweep ==
    /\ cfg = DefaultCfg
    /\ image = ModelImage
    /\ \E features_left \in SweepLists(SweepDescriptorsLeft),
          features_right \in SweepLists(SweepDescriptorsRight),
          epipolar_offset \in MatchOffsets :
          sweep = [pc |-> "outer",
                   features_left  |-> SortedFeatureVector(features_left),
                   features_right |-> SortedFeatureVector(features_right),
                   epipolar_offset |-> epipolar_offset,
                   index_l |-> 0, index_r |-> 0,
                   index_search_r |-> 0,
                   descriptor_distance_best |-> BootstrapMaxDist,
                   index_best_r |-> 0,
                   matched_indices_left |-> {}, matched_indices_right |-> {},
                   iterations |-> 0]
    /\ IDENTIFIER = 0
    /\ threads = IdleThreads
    /\ framepoints = << >>
    /\ matcher = DefaultMatcher
    /\ call = [op |-> "get_epipolar_matches", result |-> "Running", arg |-> << >>]
    /\ feature_matcher_left = DefaultMatcher
    /\ feature_matcher_right = DefaultMatcher
    /\ current_maximum_descriptor_distance_triangulation = InitialMaxDist(cfg)
    /\ epipolar_search_distance = << >>
    /\ accepted = << >>
    /\ returned = NoReturn
    /\ survivors = << >>
    /\ detectors = << >>
    /\ number_of_detected_keypoints = 0
    /\ frame = << >>
    /\ detections = << >>
    /\ fpg_detectors = << >>

SweepFrame ==
    UNCHANGED <<matcher, call, matchVars, detectVars, cfgVars, pointVars>>

\* 'out: while index_l < features_left.len() { if index_r == len { break } ...
OuterTest ==
    /\ sweep.pc = "outer"
    /\ sweep' = IF ~(sweep.index_l < Len(sweep.features_left))
                THEN [sweep EXCEPT !.pc = "done"]
                ELSE IF Exhausted(sweep.index_r, sweep.features_right)
                THEN [sweep EXCEPT !.pc = "done"]
                ELSE [sweep EXCEPT !.pc = "skip_left", !.iterations = @ + 1]
    /\ SweepFrame

\* while features_left[index_l].row < features_right[index_r].row + offset,
\* then let feature_left = features_left[index_l].clone()
SkipLeftStep ==
    /\ sweep.pc = "skip_left"
    /\ sweep' =
         IF ~ReadOk(sweep.features_left, sweep.index_l)
              \/ ~ReadOk(sweep.features_right, sweep.index_r)
         THEN [sweep EXCEPT !.pc = "panic"]
         ELSE IF sweep.features_left[sweep.index_l + 1].row
                   < sweep.features_right[sweep.index_r + 1].row + sweep.epipolar_offset
         THEN IF Exhausted(sweep.index_l + 1, sweep.features_left)
              THEN [sweep EXCEPT !.index_l = @ + 1, !.pc = "done"]
              ELSE [sweep EXCEPT !.index_l = @ + 1]
         ELSE [sweep EXCEPT !.pc = "skip_right"]
    /\ SweepFrame

\* while feature_left.row > features_right[index_r].row + offset, then the
\* initialisation of the search
SkipRightStep ==
    /\ sweep.pc = "skip_right"
    /\ sweep' =
         IF ~ReadOk(sweep.features_right, sweep.index_r)
         THEN [sweep EXCEPT !.pc = "panic"]
         ELSE IF sweep.features_left[sweep.index_l + 1].row
                   > sweep.features_right[sweep.index_r + 1].row + sweep.epipolar_offset
         THEN IF Exhausted(sweep.index_r + 1, sweep.features_right)
              THEN [sweep EXCEPT !.index_r = @ + 1, !.pc = "done"]
              ELSE [sweep EXCEPT !.index_r = @ + 1]
         ELSE [sweep EXCEPT !.pc = "search",
                            !.index_search_r = sweep.index_r,
                            !.descriptor_distance_best =
                                current_maximum_descriptor_distance_triangulation,
                            !.index_best_r = 0]
    /\ SweepFrame

\* while feature_left.row == features_right[index_search_r].row + offset
SearchStep ==
    /\ sweep.pc = "search"
    /\ sweep' =
         IF ~ReadOk(sweep.features_right, sweep.index_search_r)
         THEN [sweep EXCEPT !.pc = "panic"]
         ELSE
         LET feature_left == sweep.features_left[sweep.index_l + 1]
             feature_right == sweep.features_right[sweep.index_search_r + 1]
             descriptor_distance ==
                 DistanceTenths(feature_left.descriptor, feature_right.descriptor)
             better == Better(descriptor_distance, sweep.descriptor_distance_best)
         IN  IF feature_left.row # feature_right.row + sweep.epipolar_offset
             THEN [sweep EXCEPT !.pc = "accept"]
             ELSE IF ColumnBehind(feature_left, feature_right)
             THEN [sweep EXCEPT !.pc = "accept"]
             ELSE [sweep EXCEPT
                     !.descriptor_distance_best =
                         IF better THEN descriptor_distance ELSE @,
                     !.index_best_r = IF better THEN sweep.index_search_r ELSE @,
                     !.index_search_r = @ + 1,
                     !.pc = IF Exhausted(sweep.index_search_r + 1,
                                         sweep.features_right)
                            THEN "accept" ELSE "search"]
    /\ SweepFrame

\* if descriptor_distance_best < max_dist { insert, insert, index_r = ... }
\* index_l += 1
AcceptStep ==
    /\ sweep.pc = "accept"
    /\ sweep' =
         IF Accept(sweep.descriptor_distance_best,
                   current_maximum_descriptor_distance_triangulation)
         THEN [sweep EXCEPT
                 !.matched_indices_left = @ \cup {sweep.index_l},
                 !.matched_indices_right = @ \cup {sweep.index_best_r},
                 !.index_r = AdvanceRight(sweep.index_best_r),
                 !.index_l = @ + 1,
                 !.pc = "outer"]
         ELSE [sweep EXCEPT !.index_l = @ + 1, !.pc = "outer"]
    /\ SweepFrame

NextSweep == OuterTest \/ SkipLeftStep \/ SkipRightStep \/ SearchStep \/ AcceptStep

\* the sweep is one loop of one thread: it keeps running until it leaves the loop
SpecSweep == InitSweep /\ [][NextSweep]_vars /\ WF_vars(NextSweep)

(***************************************************************************)
(* Specification of the engine over successive frames: finalize, then any  *)
(* sequence of initialize(frame, false) on frames that already hold their  *)
(* keypoints and descriptors, get_epipolar_matches and compute_frame_point.*)
(***************************************************************************)
\* keypoints and descriptors of the frames: none or one feature per side
EngineKeypoints == {[x |-> 0, y |-> 0], [x |-> 2, y |-> 0]}
EngineFeatures(descriptors) ==
    SeqsUpTo([keypoint : EngineKeypoints, descriptor : descriptors], 1)

\* a Frame whose pub fields the caller has filled
FrameWith(status, features_left, features_right) ==
    [NewFrame(status) EXCEPT
        !.keypoints_left = KeypointsOf(features_left),
        !.keypoints_right = KeypointsOf(features_right),
        !.descriptors_left = DescriptorsOf(features_left),
        !.descriptors_right = DescriptorsOf(features_right)]

NextFrame ==
    /\ \E features_left \in EngineFeatures(LeftDescriptors),
          features_right \in EngineFeatures(RightDescriptors) :
          \E r \in {initialize(Generator,
                                FrameWith("Localizing", features_left, features_right),
                                FALSE, << >>, << >>)} :
              /\ InitializeEffect(r)
              /\ call' = [op |-> "initialize", result |-> r.result, arg |-> FALSE]

NextEngine == NextFrame \/ GetEpipolarMatches \/ ComputeFramePoint

SpecEngine == InitMatch /\ [][NextEngine]_vars

(***************************************************************************)
(* StereoFramepoint::new, called from several threads.  The static         *)
(* IDENTIFIER is read by load while the struct is built and incremented by *)
(* fetch_add afterwards; both are SeqCst, each is one atomic step.         *)
(***************************************************************************)
\* keypoints handed to StereoFramepoint::new (coordinates in 1/SubPixel pixel)
PointKeypointsLeft == {[x |-> 4, y |-> 0], [x |-> 4, y |-> 2]}
PointKeypointsRight == {[x |-> 2, y |-> 0], [x |-> 2, y |-> 2]}

\* the struct literal of StereoFramepoint::new, identifier being what
\* IDENTIFIER.load returned
StereoFramepointNew(keypoint_left, keypoint_right, identifier) ==
    [row |-> Trunc(keypoint_left.y),
     col |-> Trunc(keypoint_left.x),
     identifier |-> identifier,
     keypoint_left |-> keypoint_left,
     keypoint_right |-> keypoint_right,
     disparity_pixels |-> keypoint_left.x - keypoint_right.y,
     image_coordinates_left |-> <<keypoint_left.x, keypoint_left.y, SubPixel>>,
     image_coordinates_right |-> <<keypoint_right.x, keypoint_right.y, SubPixel>>]

\* AtomicUsize::fetch_add; its wrap-around at usize::MAX is beyond the bounded
\* number of calls
fetch_add(value, n) == value + n

\* thread t evaluates the struct literal: IDENTIFIER.load and the other fields
NewBuild(t) ==
    /\ threads[t].pc = "idle"
    /\ threads[t].calls < MaxFramepointsPerThread
    /\ \E keypoint_left \in PointKeypointsLeft, keypoint_right \in PointKeypointsRight :
          threads' = [threads EXCEPT
                        ![t].pc = "built",
                        ![t].r = StereoFramepointNew(keypoint_left, keypoint_right,
                                                      IDENTIFIER)]
    /\ UNCHANGED <<matcher, call, matchVars, detectVars, cfgVars, sweep, IDENTIFIER,
                   framepoints>>

\* thread t runs IDENTIFIER.fetch_add(1) and returns r
NewFetchAddReturn(t) ==
    /\ threads[t].pc = "built"
    /\ IDENTIFIER' = fetch_add(IDENTIFIER, 1)
    /\ framepoints' = Append(framepoints, [thread |-> t, point |-> threads[t].r])
    /\ threads' = [threads EXCEPT ![t].pc = "idle", ![t].calls = @ + 1,
                                  ![t].r = << >>]
    /\ call' = [op |-> "StereoFramepoint::new", result |-> "Ok", arg |-> t]
    /\ UNCHANGED <<matcher, matchVars, detectVars, cfgVars, sweep>>

\* the process has started; no generator or lattice call is made
InitFramepoint == InitLattice

NextFramepoint == \E t \in Threads : NewBuild(t) \/ NewFetchAddReturn(t)

SpecFramepoint == InitFramepoint /\ [][NextFramepoint]_vars

(***************************************************************************)
(* Claims about the lattice (SpecLattice).                                 *)
(***************************************************************************)
SetFeaturesOk == call.op = "set_features" /\ call.result = "Ok"

CellOf(m, e) == m.feature_lattice[e.row + 1][e.col + 1]

SameCell(a, b) == a.row = b.row /\ a.col = b.col

\* C5 as stated: after a successful set_features with N keypoints the flat list
\* has N entries and every entry e is held by its own cell lattice[e.row][e.col].
C5_EveryEntryInItsCell ==
    SetFeaturesOk =>
        LET fv == matcher.feature_vector
        IN  /\ Len(fv) = call.arg[1]
            /\ \A i \in 1..Len(fv) : CellOf(matcher, fv[i]) = <<fv[i]>>

\* C5 amended: after a successful set_features with N keypoints the flat list has
\* N entries, and the cell of every entry e is non-empty and holds the entry of
\* greatest input index that truncates to that cell (e itself exactly when no
\* later keypoint collides with it).
C5_CellHoldsLastWriter ==
    SetFeaturesOk =>
        LET fv == matcher.feature_vector
        IN  /\ Len(fv) = call.arg[1]
            /\ \A i \in 1..Len(fv) :
                  LET last == CHOOSE j \in i..Len(fv) :
                                 /\ SameCell(fv[j], fv[i])
                                 /\ \A k \in (j + 1)..Len(fv) : ~SameCell(fv[k], fv[i])
                  IN  CellOf(matcher, fv[i]) = <<fv[last]>>

\* a successful set_features whose keypoints collide in one cell
C5_Witness ==
    /\ SetFeaturesOk
    /\ \E i, j \in 1..Len(matcher.feature_vector) :
          /\ i < j
          /\ SameCell(matcher.feature_vector[i], matcher.feature_vector[j])
          /\ matcher.feature_vector[i].keypoint # matcher.feature_vector[j].keypoint

\* the entries of old at the (Rust) indices outside M, in their old order
KeepUnmatched(old, M) ==
    LET kept == {i \in 0..(Len(old) - 1) : i \notin M}
    IN  [k \in 1..Cardinality(kept) |->
            LET i == CHOOSE i \in kept : Cardinality({j \in kept : j < i}) = k - 1
            IN  old[i + 1]]

C7_MismatchLeavesLattice ==
    [][(call'.op = "set_features" /\ call'.arg[1] # call'.arg[2]) =>
          /\ call'.result = "Err"
          /\ matcher' = matcher
      ]_vars

\* a count mismatch reported on a populated lattice
C7_Witness ==
    /\ call.op = "set_features"
    /\ call.result = "Err"
    /\ matcher.feature_vector # << >>

\* C8: configure on an instance that was configured before fails (panics) and
\* leaves dimensions, cells and flat list unchanged.
C8_ConfigureOneShot ==
    [][(call'.op = "configure" /\ matcher.number_of_rows # 0) =>
          /\ call'.result = "Panic"
          /\ matcher' = matcher
      ]_vars

\* a second configure that failed on a populated lattice
C8_Witness ==
    /\ call.op = "configure"
    /\ call.result = "Panic"
    /\ matcher.feature_vector # << >>

(***************************************************************************)
(* Claims about the epipolar matching (SpecMatch).                         *)
(***************************************************************************)
Range(seq) == {seq[k] : k \in 1..Len(seq)}

\* the entries a step appended to accepted
NewlyAccepted == SubSeq(accepted', Len(accepted) + 1, Len(accepted'))

\* right is on left's epipolar line at the offset, not right of left, and its
\* descriptor is closer than max_dist
AcceptableCandidate(left, right, epipolar_offset, max_dist) ==
    /\ left.row = right.row + epipolar_offset
    /\ left.col - right.col >= 0
    /\ DistanceTenths(left.descriptor, right.descriptor) < max_dist

\* C1: no accepted pair has a descriptor distance >= max_dist at the time of
\* acceptance, and a left feature without a candidate strictly below max_dist is
\* left unmatched by the pass (it stays in the left flat list).
C1_AcceptedBelowMaxDist ==
    [][call'.op \in {"get_epipolar_matches", "compute_frame_point"} =>
          LET max_dist == current_maximum_descriptor_distance_triangulation
              fl == feature_matcher_left.feature_vector
              fr == feature_matcher_right.feature_vector
          IN  /\ \A a \in Range(NewlyAccepted) :
                    /\ a.left \in Range(fl) /\ a.right \in Range(fr)
                    /\ a.max_dist = max_dist
                    /\ DistanceTenths(a.left.descriptor, a.right.descriptor) < max_dist
              /\ call'.op = "get_epipolar_matches" =>
                  \A left \in Range(fl) :
                    (~\E right \in Range(fr) :
                         AcceptableCandidate(left, right, call'.arg, max_dist))
                    => /\ left \in Range(feature_matcher_left'.feature_vector)
                       /\ \A a \in Range(NewlyAccepted) : a.left # left
      ]_vars

\* a pass that accepted one left feature and left another, whose only candidate
\* is too far, unmatched
C1_Witness ==
    /\ call.op = "get_epipolar_matches"
    /\ returned.left_key_points # << >>
    /\ \E left \in Range(feature_matcher_left.feature_vector),
          right \in Range(feature_matcher_right.feature_vector) :
          /\ left.row = right.row + call.arg
          /\ left.col - right.col >= 0
          /\ DistanceTenths(left.descriptor, right.descriptor)
               >= current_maximum_descriptor_distance_triangulation

\* C2: every accepted pair has left.col - right.col >= 0 and
\* left.row = right.row + offset.
C2_AcceptedOnEpipolarLine ==
    \A a \in Range(accepted) :
        /\ a.left.col - a.right.col >= 0
        /\ a.left.row = a.right.row + a.offset

\* pairs accepted at a non-zero offset and across columns
C2_Witness ==
    /\ \E a \in Range(accepted) : a.offset # 0 /\ a.left.row # a.right.row
    /\ \E a \in Range(accepted) : a.left.col > a.right.col

\* C3: over all passes since one initialize no left and no right feature takes
\* part in more than one accepted pair, and the features of an accepted pair are
\* gone from the flat lists.
C3_EachFeatureMatchedOnce ==
    /\ \A i, j \in 1..Len(accepted) :
          i # j => /\ accepted[i].left.index_in_vector # accepted[j].left.index_in_vector
                   /\ accepted[i].right.index_in_vector # accepted[j].right.index_in_vector
    /\ \A a \in Range(accepted) :
          /\ a.left \notin Range(feature_matcher_left.feature_vector)
          /\ a.right \notin Range(feature_matcher_right.feature_vector)

\* two pairs accepted in two passes at different offsets
C3_Witness ==
    \E i, j \in 1..Len(accepted) : accepted[i].offset # accepted[j].offset

\* disparity of an accepted pair: left.x - right.x
Disparity(a) == a.left.keypoint.x - a.right.keypoint.x

\* the entries the last compute_frame_point appended to accepted
AcceptedByLastCall == SubSeq(accepted, Len(accepted) - call.arg + 1, Len(accepted))

\* C4: after compute_frame_point every accepted pair with disparity below
\* minimum_disparity_pixels is no surviving correspondence and its features stay
\* pruned; the survivors are exactly the accepted pairs with disparity >=
\* minimum_disparity_pixels.
C4_SmallDisparityDiscarded ==
    call.op = "compute_frame_point" =>
        LET new == AcceptedByLastCall
            small(a) == Disparity(a) < minimum_disparity_pixels * SubPixel
            large(a) == ~small(a)
        IN  /\ \A p \in Range(survivors) :
                  p.left.x - p.right.x >= minimum_disparity_pixels * SubPixel
            /\ \A a \in Range(new) :
                  small(a) =>
                    /\ \A p \in Range(survivors) :
                          ~(p.left = a.left.keypoint /\ p.right = a.right.keypoint)
                    /\ a.left \notin Range(feature_matcher_left.feature_vector)
                    /\ a.right \notin Range(feature_matcher_right.feature_vector)
            /\ survivors = [k \in 1..Len(SelectSeq(new, large)) |->
                               [left  |-> SelectSeq(new, large)[k].left.keypoint,
                                right |-> SelectSeq(new, large)[k].right.keypoint]]

\* a compute_frame_point that matched a pair with disparity 0, a pair with a
\* positive disparity below the minimum, or both, and kept another pair
C4_Witness ==
    /\ call.op = "compute_frame_point"
    /\ survivors # << >>
    /\ \E a \in Range(AcceptedByLastCall) :
          Disparity(a) < minimum_disparity_pixels * SubPixel

(***************************************************************************)
(* Claims about the detector threshold controller (SpecDetect).            *)
(***************************************************************************)
AllDetectors == Range(detectors) \cup Range(fpg_detectors)

\* C9: after any sequence of detection calls with any per-region keypoint
\* counts, every region's detection threshold, the stored one and the one pushed
\* into its detector, lies within
\* [detector_threshold_minimum, detector_threshold_maximum].
C9_ThresholdsWithinRange ==
    \A d \in AllDetectors :
        /\ detector_threshold_minimum * ThresholdScale <= d.threshold
        /\ d.threshold <= detector_threshold_maximum * ThresholdScale
        /\ detector_threshold_minimum <= d.detector_threshold
        /\ d.detector_threshold <= detector_threshold_maximum

\* C10: in every detect_keypoints call, a region whose keypoint count is below
\* the per-region target by more than the tolerance is left with a threshold
\* that is at most the threshold its detector ran with and at least
\* detector_threshold_minimum; a region whose count is above the target by more
\* than the tolerance is left with a threshold that is at least the threshold
\* its detector ran with.
C10_MonotonicResponse ==
    \A d \in Range(detections) : \A k \in DOMAIN d.counts :
        /\ BelowTarget(d.counts[k]) =>
               /\ d.post[k] <= d.pre[k] * ThresholdScale
               /\ d.post[k] >= detector_threshold_minimum * ThresholdScale
        /\ AboveTarget(d.counts[k]) =>
               d.post[k] >= d.pre[k] * ThresholdScale

\* one handler lowered a region's threshold on a count below the target and
\* raised it on a count above the target
C10_Witness ==
    /\ \E d \in Range(detections) : \E k \in DOMAIN d.counts :
           /\ BelowTarget(d.counts[k])
           /\ d.post[k] < d.pre[k] * ThresholdScale
    /\ \E d \in Range(detections) : \E k \in DOMAIN d.counts :
           /\ AboveTarget(d.counts[k])
           /\ d.post[k] > d.pre[k] * ThresholdScale

(***************************************************************************)
(* Claims about StereoFramepoint::new (SpecFramepoint).                    *)
(***************************************************************************)
\* C11: for every interleaving of StereoFramepoint::new calls in several
\* threads the identifiers of the created framepoints are pairwise distinct,
\* and those created by one thread are strictly increasing.
C11_IdentifiersDistinct ==
    \A i, j \in DOMAIN framepoints :
        i < j =>
            /\ framepoints[i].point.identifier # framepoints[j].point.identifier
            /\ framepoints[i].thread = framepoints[j].thread =>
                   framepoints[i].point.identifier < framepoints[j].point.identifier

\* C12: every created stereo framepoint stores disparity = left.x - right.x.
C12_DisparityIsDifferenceOfColumns ==
    \A i \in DOMAIN framepoints :
        framepoints[i].point.disparity_pixels =
            framepoints[i].point.keypoint_left.x - framepoints[i].point.keypoint_right.x

(***************************************************************************)
(* Claims about the configuration and the error paths.                     *)
(***************************************************************************)
\* the offsets 0, +1, -1, ..., +m, -m
ExpectedOffsets(m) ==
    [i \in 1..(2 * m + 1) |-> IF i % 2 = 0 THEN i \div 2 ELSE -(i \div 2)]

\* C13: for a configured maximum_epipolar_search_offset_pixels = m >= 0 the
\* sequence of epipolar row offsets built by finalize is 0, +1, -1, ..., +m, -m
\* (2m+1 offsets, offset 0 first, only offset 0 when m = 0).
C13_OffsetsReachMaximum ==
    epipolar_search_distance =
        ExpectedOffsets(cfg.maximum_epipolar_search_offset_pixels)

\* C14: after initialize with extract_features = true, max_dist is the bootstrap
\* value when the frame is Localizing and otherwise the greater of the bootstrap
\* value and previous max_dist * min(detected / target, 1); max_dist is never
\* below the bootstrap value and does not increase across a Tracking frame.
C14_MaxDistFloorAndScale ==
    [][LET previous == current_maximum_descriptor_distance_triangulation
           now      == current_maximum_descriptor_distance_triangulation'
       IN  /\ now >= BootstrapMaxDist
           /\ (call'.op = "initialize" /\ call'.arg = TRUE) =>
                  /\ frame'.status = "Localizing" => now = BootstrapMaxDist
                  /\ frame'.status = "Tracking" =>
                         /\ now * target_number_of_keypoints =
                                Max(BootstrapMaxDist * target_number_of_keypoints,
                                    Min(number_of_detected_keypoints',
                                        target_number_of_keypoints) * previous)
                         /\ now <= previous]_vars

\* a Tracking frame with fewer keypoints than the target went through
\* initialize(frame, true)
C14_Witness ==
    /\ call.op = "initialize" /\ call.arg = TRUE
    /\ frame.status = "Tracking"
    /\ 0 < number_of_detected_keypoints
    /\ number_of_detected_keypoints < target_number_of_keypoints
    /\ current_maximum_descriptor_distance_triangulation = BootstrapMaxDist

\* C15: finalize with number_of_detectors_vertical = 0 or
\* number_of_detectors_horizontal = 0 is rejected: no generator is produced.
C15_ZeroGridRejected ==
    (cfg.number_of_detectors_vertical = 0 \/ cfg.number_of_detectors_horizontal = 0)
        => ~(call.op = "finalize" /\ call.result = "Ok")

\* the keypoint truncates to a (row, col) outside the configured grid
OutsideLattice(m, keypoint) ==
    ~InLattice(m.feature_lattice, Trunc(keypoint.y), Trunc(keypoint.x))

\* C16: set_features on a configured lattice, given (with as many descriptors as
\* keypoints) a keypoint whose truncated (row, col) lies outside the configured
\* grid, returns an error.
C16_OutOfBoundsReturnsError ==
    [][(/\ matcher.number_of_rows # 0
        /\ call'.op = "set_features"
        /\ call'.arg[1] = call'.arg[2]
        /\ \E k \in DOMAIN call'.arg[3] : OutsideLattice(matcher, call'.arg[3][k]))
       => call'.result = "Err"]_vars

\* the frame has no keypoints on the left side, on the right side or on both
EmptySide(f) == Len(f.keypoints_left) = 0 \/ Len(f.keypoints_right) = 0

\* C17: when the frame has zero keypoints on a side, initialize succeeds and
\* get_epipolar_matches and compute_frame_point succeed and yield no
\* correspondence; every initialize, whatever frames came before, succeeds and
\* loads exactly its frame's features.
C17_EmptyFrameIsNoError ==
    [][/\ call'.op = "initialize" =>
              /\ call'.result = "Ok"
              /\ KeypointsOf(feature_matcher_left'.feature_vector)
                     = frame'.keypoints_left
              /\ KeypointsOf(feature_matcher_right'.feature_vector)
                     = frame'.keypoints_right
       /\ (call'.op \in {"get_epipolar_matches", "compute_frame_point"}
               /\ EmptySide(frame)) =>
              /\ call'.result = "Ok"
              /\ returned' = NoReturn
              /\ accepted' = accepted
              /\ call'.op = "compute_frame_point" => survivors' = << >>]_vars

\* a frame with an empty side went through compute_frame_point
C17_Witness ==
    /\ call.op = "compute_frame_point"
    /\ call.result = "Ok"
    /\ EmptySide(frame)
    /\ Len(frame.keypoints_left) + Len(frame.keypoints_right) > 0
    /\ returned = NoReturn

\* C19: in every reachable state of a lattice, every non-empty lattice cell's
\* occupant appears exactly once in the flat list.
C19_CellOccupantInFlatList ==
    \A row \in DOMAIN matcher.feature_lattice :
        \A col \in DOMAIN matcher.feature_lattice[row] :
            LET cell == matcher.feature_lattice[row][col]
            IN  cell # NoFeature =>
                    Cardinality({i \in DOMAIN matcher.feature_vector :
                                    matcher.feature_vector[i] = cell[1]}) = 1

Abs(v) == IF v < 0 THEN -v ELSE v

\* C20: a region whose count is below the target by more than the tolerance has
\* its threshold decreased by |min(delta, maximum change)| * threshold, at least
\* by 1, and the result floored at detector_threshold_minimum.
C20_ProportionalDecrement ==
    \A d \in Range(detections) : \A k \in DOMAIN d.counts :
        BelowTarget(d.counts[k]) =>
            d.post[k] =
                Max(d.pre[k] * ThresholdScale
                      - Max(Abs(Min(DeltaNum(d.counts[k]) * MaxChangeDen,
                                    MaxChangeNum * target_number_of_keypoints))
                              * d.pre[k],
                            ThresholdScale),
                    detector_threshold_minimum * ThresholdScale)

(***************************************************************************)
(* Claims about the detector grid and the upward threshold step (SpecFpg). *)
(***************************************************************************)
WithinTolerance(count) == ~BelowTarget(count) /\ ~AboveTarget(count)

\* C21 as stated: a region whose count is above the target by more than the
\* tolerance has its threshold increased by max(delta, maximum change) *
\* threshold, at least by 1; within the tolerance the threshold is unchanged.
C21_IncreaseByMaxOfDeltaAndStep ==
    \A d \in Range(detections) : \A k \in DOMAIN d.counts :
        /\ AboveTarget(d.counts[k]) =>
               d.post[k] =
                   d.pre[k] * ThresholdScale
                     + Max(Max(DeltaNum(d.counts[k]) * MaxChangeDen,
                               MaxChangeNum * target_number_of_keypoints) * d.pre[k],
                           ThresholdScale)
        /\ WithinTolerance(d.counts[k]) => d.post[k] = d.pre[k] * ThresholdScale

\* C21 amended: the increase is min(delta, maximum change) * threshold, at least
\* 1, over the threshold the detector ran with; within the tolerance the region
\* is left with the threshold its detector ran with.
C21_IncreaseByMinOfDeltaAndStep ==
    \A d \in Range(detections) : \A k \in DOMAIN d.counts :
        /\ AboveTarget(d.counts[k]) =>
               d.post[k] =
                   d.pre[k] * ThresholdScale
                     + Max(Min(DeltaNum(d.counts[k]) * MaxChangeDen,
                               MaxChangeNum * target_number_of_keypoints) * d.pre[k],
                           ThresholdScale)
        /\ WithinTolerance(d.counts[k]) => d.post[k] = d.pre[k] * ThresholdScale

\* a detect_keypoints call saw a region above the target by more than the
\* tolerance and by less than the maximum change, and raised its threshold
C21_Witness ==
    \E d \in Range(detections) : \E k \in DOMAIN d.counts :
        /\ AboveTarget(d.counts[k])
        /\ DeltaNum(d.counts[k]) * MaxChangeDen < MaxChangeNum * target_number_of_keypoints
        /\ d.post[k] > d.pre[k] * ThresholdScale

Regions == {fpg_detectors[k].region : k \in DOMAIN fpg_detectors}

Pixels == (0..(image.width - 1)) \X (0..(image.height - 1))

Covers(region, pixel) ==
    /\ region.x <= pixel[1] /\ pixel[1] < region.x + region.width
    /\ region.y <= pixel[2] /\ pixel[2] < region.y + region.height

\* C26: for every image size and grid shape (1 <= rows_v <= H, 1 <= cols_h <= W)
\* the regions built by finalize are equal-sized, lie inside the image, are
\* pairwise disjoint, and cover every pixel except possibly a remainder to the
\* right of the last column of regions or below the last row of regions.
C26_RegionsPartitionImage ==
    /\ \A a, b \in Regions : a.width = b.width /\ a.height = b.height
    /\ \A a \in Regions :
           /\ 0 <= a.x /\ a.x + a.width <= image.width
           /\ 0 <= a.y /\ a.y + a.height <= image.height
    /\ \A k, l \in DOMAIN fpg_detectors :
           k # l => \A pixel \in Pixels :
                       ~(Covers(fpg_detectors[k].region, pixel)
                           /\ Covers(fpg_detectors[l].region, pixel))
    /\ \A pixel \in Pixels :
           \/ \E a \in Regions : Covers(a, pixel)
           \/ \A a \in Regions : pixel[1] >= a.x + a.width
           \/ \A a \in Regions : pixel[2] >= a.y + a.height

(***************************************************************************)
(* Claims about the thresholds over one frame (SpecDetect).                *)
(***************************************************************************)
ExtractedFrame == call.op = "initialize" /\ Len(detections) = 2

\* C22: in every initialize(extract_features = true) the left and the right
\* detection of every region both run with the threshold the detector held
\* when the call began (pushed at the end of the previous frame, or the initial
\* one), and when the call ends the detector holds the pushed (truncated)
\* threshold stored by the frame's last detection.
C22_UpdatesTakeEffectNextFrame ==
    [][ExtractedFrame' =>
          \A k \in DOMAIN detectors :
              /\ detections'[1].pre[k] = detectors[k].detector_threshold
              /\ detections'[2].pre[k] = detectors[k].detector_threshold
              /\ detectors'[k].threshold = detections'[2].post[k]
              /\ detectors'[k].detector_threshold * ThresholdScale
                     <= detectors'[k].threshold
              /\ detectors'[k].threshold
                     < (detectors'[k].detector_threshold + 1) * ThresholdScale]_vars

\* a frame whose left detection adjusted a region's threshold, whose right
\* detection still ran with the old one, and after which a new one is pushed
C22_Witness ==
    /\ ExtractedFrame
    /\ \E k \in DOMAIN detectors :
           /\ detections[1].post[k] # detections[1].pre[k] * ThresholdScale
           /\ detections[2].pre[k] = detections[1].pre[k]
           /\ detectors[k].detector_threshold # detections[1].pre[k]

\* C29: in initialize(extract_features = true) the threshold a region is left
\* with is computed from the right image's keypoint count and the threshold
\* the detector held during the frame only: the same call with any other
\* per-region counts for the left image ends with identical detectors.
C29_LeftCountsDoNotInfluenceThresholds ==
    [][ExtractedFrame' =>
          /\ \A k \in DOMAIN detectors :
                 detectors'[k].threshold =
                     AdjustedThreshold(detectors[k].detector_threshold,
                                       detections'[2].counts[k])
          /\ \A other_left \in RegionCounts :
                 ExtractFeatures(Generator, NewFrame(frame'.status), other_left,
                                 detections'[2].counts).g.detectors = detectors']_vars

\* a frame whose left detection stored another threshold for a region than
\* the right detection, which is the one the generator is left with
C29_Witness ==
    /\ ExtractedFrame
    /\ \E k \in DOMAIN detectors :
           /\ detections[1].counts[k] # detections[2].counts[k]
           /\ detections[1].post[k] # detections[2].post[k]
           /\ detectors[k].threshold = detections[2].post[k]

(***************************************************************************)
(* Claims about the acceptance threshold (SpecTriangulation).              *)
(***************************************************************************)
\* C30: in every reachable state, whatever maximum_matching_distance_triangulation
\* was configured and whatever Localizing and Tracking frames with whatever
\* keypoint counts were processed, max_dist is the bootstrap value 0.1 * 256.
C30_MaxDistIsBootstrapValue ==
    current_maximum_descriptor_distance_triangulation = BootstrapMaxDist

\* a generator configured with another maximum_matching_distance_triangulation
\* than the default has processed a Tracking frame with fewer keypoints than
\* the target
C30_Witness ==
    /\ cfg.maximum_matching_distance_triangulation
           # maximum_matching_distance_triangulation_default
    /\ call.op = "initialize"
    /\ frame.status = "Tracking"
    /\ frame.number_of_detected_keypoints < target_number_of_keypoints
    /\ current_maximum_descriptor_distance_triangulation = BootstrapMaxDist

(***************************************************************************)
(* Claims about the order of the sweep (SpecMatch).                        *)
(***************************************************************************)
PassStep == call'.op = "get_epipolar_matches"

\* the flat lists a pass sweeps: the lists before the call, sorted
SweptLeft == sort_feature_vector(feature_matcher_left).feature_vector
SweptRight == sort_feature_vector(feature_matcher_right).feature_vector

\* the (TLA+) index of feature f in the list fv; features of one list differ in
\* index_in_vector
PositionIn(fv, f) == CHOOSE j \in 1..Len(fv) : fv[j] = f

\* C23: for each left feature matched by a get_epipolar_matches pass, the right
\* feature it is paired with has the minimum descriptor distance among the
\* right features eligible at that moment (at or after the right pointer, that
\* is after the previously accepted right feature; right.row + offset =
\* left.row; right.col <= left.col), and among those at the minimum distance
\* it is the one with the lowest sorted index.
C23_BestEligibleFirstOnTies ==
    [][PassStep =>
          LET new == NewlyAccepted
              pointer(i) == IF i = 1 THEN 1
                            ELSE PositionIn(SweptRight, new[i - 1].right) + 1
              Eligible(i) ==
                  {j \in pointer(i)..Len(SweptRight) :
                      /\ new[i].left.row = SweptRight[j].row + call'.arg
                      /\ SweptRight[j].col <= new[i].left.col}
              distance(i, j) ==
                  DistanceTenths(new[i].left.descriptor, SweptRight[j].descriptor)
          IN  \A i \in 1..Len(new) :
                  LET best == PositionIn(SweptRight, new[i].right)
                  IN  /\ new[i].left \in Range(SweptLeft)
                      /\ new[i].right \in Range(SweptRight)
                      /\ best \in Eligible(i)
                      /\ \A j \in Eligible(i) :
                             \/ distance(i, j) > distance(i, best)
                             \/ distance(i, j) = distance(i, best) /\ j >= best
      ]_vars

\* a pass paired a left feature with the first of two eligible right features
\* at the same distance: the other one, further right, stays unmatched
C23_Witness ==
    /\ call.op = "get_epipolar_matches"
    /\ \E a \in Range(accepted) :
           \E right \in Range(feature_matcher_right.feature_vector) :
               /\ a.left.row = right.row + call.arg
               /\ a.offset = call.arg
               /\ right.row = a.right.row
               /\ right.col > a.right.col
               /\ right.col <= a.left.col
               /\ DistanceTenths(a.left.descriptor, right.descriptor) = a.distance

\* positions in fv of the features of the pairs, in acceptance order
StrictlyIncreasing(positions) ==
    \A i, j \in 1..Len(positions) : i < j => positions[i] < positions[j]

\* C24: get_epipolar_matches returns two keypoint lists of equal length; the
\* i-th left keypoint and the i-th right keypoint are the two members of the
\* i-th pair the pass accepted, and the pairs' indices in the sorted left list
\* and in the sorted right list are both strictly increasing.
C24_ReturnedListsAligned ==
    [][PassStep =>
          LET new == NewlyAccepted
              left_key_points == returned'.left_key_points
              right_key_points == returned'.right_key_points
          IN  /\ Len(left_key_points) = Len(right_key_points)
              /\ Len(left_key_points) = Len(new)
              /\ \A i \in 1..Len(new) :
                     /\ left_key_points[i] = new[i].left.keypoint
                     /\ right_key_points[i] = new[i].right.keypoint
              /\ StrictlyIncreasing(
                     [i \in 1..Len(new) |-> PositionIn(SweptLeft, new[i].left)])
              /\ StrictlyIncreasing(
                     [i \in 1..Len(new) |-> PositionIn(SweptRight, new[i].right)])
      ]_vars

\* a pass returned two pairs with different keypoints
C24_Witness ==
    /\ call.op = "get_epipolar_matches"
    /\ Len(returned.left_key_points) = 2
    /\ Len(returned.right_key_points) = 2
    /\ returned.left_key_points[1] # returned.left_key_points[2]
    /\ returned.right_key_points[1] # returned.right_key_points[2]

\* row-major order: row_i < row_j, or row_i = row_j and col_i <= col_j
RowMajor(fv) ==
    \A i, j \in 1..Len(fv) :
        i < j => \/ fv[i].row < fv[j].row
                 \/ fv[i].row = fv[j].row /\ fv[i].col <= fv[j].col

\* fv and fw hold the same features, each once (features of a list differ in
\* index_in_vector)
Permutation(fv, fw) ==
    /\ Len(fv) = Len(fw)
    /\ Range(fv) = Range(fw)
    /\ Cardinality(Range(fv)) = Len(fv)

\* C28: sort_feature_vector leaves the flat list a permutation of its content
\* in row-major (row, col) ascending order and the lattice grid as it was;
\* every get_epipolar_matches pass sweeps the lists in this order, also a pass
\* after a prune, and the pruned lists it leaves are in this order.
C28_SortedRowMajor ==
    [][PassStep =>
          /\ \A m \in {feature_matcher_left, feature_matcher_right} :
                 /\ Permutation(sort_feature_vector(m).feature_vector, m.feature_vector)
                 /\ RowMajor(sort_feature_vector(m).feature_vector)
                 /\ sort_feature_vector(m).feature_lattice = m.feature_lattice
                 /\ sort_feature_vector(m).number_of_rows = m.number_of_rows
                 /\ sort_feature_vector(m).number_of_cols = m.number_of_cols
          /\ accepted' = accepted \o
                 Sweep(SweptLeft, SweptRight, call'.arg,
                       current_maximum_descriptor_distance_triangulation,
                       SweepStart).pairs
          /\ RowMajor(feature_matcher_left'.feature_vector)
          /\ RowMajor(feature_matcher_right'.feature_vector)
      ]_vars

\* a pass left two features in the left list in another order than the one
\* set_features loaded them in
C28_Witness ==
    /\ call.op = "get_epipolar_matches"
    /\ \E i, j \in 1..Len(feature_matcher_left.feature_vector) :
           /\ i < j
           /\ feature_matcher_left.feature_vector[i].index_in_vector
                  > feature_matcher_left.feature_vector[j].index_in_vector
           /\ FeatureLess(feature_matcher_left.feature_vector[i],
                          feature_matcher_left.feature_vector[j])

(***************************************************************************)
(* Claims about the replacement of the lattice content (SpecLattice).      *)
(***************************************************************************)
\* the (Rust) input indices of the keypoints that truncate to cell (row, col)
WritersOf(keypoints, row, col) ==
    {i \in 0..(Len(keypoints) - 1) :
        Trunc(keypoints[i + 1].y) = row /\ Trunc(keypoints[i + 1].x) = col}

\* C27: after a successful set_features the flat list holds exactly the
\* features of this call in input order, and a lattice cell (r, c) is non-empty
\* exactly when some keypoint of this call truncates to (r, c); it then holds
\* the feature of the greatest such input index.  Nothing of an earlier call
\* is left in a cell or in the flat list.
C27_SetFeaturesReplacesContent ==
    SetFeaturesOk =>
        LET keypoints == call.arg[3]
            lattice == matcher.feature_lattice
        IN  /\ Len(matcher.feature_vector) = Len(keypoints)
            /\ \A i \in 1..Len(keypoints) :
                   /\ matcher.feature_vector[i].keypoint = keypoints[i]
                   /\ matcher.feature_vector[i].index_in_vector = i - 1
            /\ \A r \in 1..Len(lattice) : \A c \in 1..Len(lattice[r]) :
                   LET writers == WritersOf(keypoints, r - 1, c - 1)
                   IN  IF writers = {}
                       THEN lattice[r][c] = NoFeature
                       ELSE \E last \in writers :
                               /\ \A i \in writers : i <= last
                               /\ lattice[r][c] = <<matcher.feature_vector[last + 1]>>

\* a successful set_features on a lattice of several cells whose keypoints
\* collide in one cell and leave another cell empty
C27_Witness ==
    /\ SetFeaturesOk
    /\ \E r \in 1..Len(matcher.feature_lattice) :
           \E c \in 1..Len(matcher.feature_lattice[r]) :
               Cardinality(WritersOf(call.arg[3], r - 1, c - 1)) = 2
    /\ \E r \in 1..Len(matcher.feature_lattice) :
           \E c \in 1..Len(matcher.feature_lattice[r]) :
               matcher.feature_lattice[r][c] = NoFeature

(***************************************************************************)
(* Claims about the sweep step by step (SpecSweep).                        *)
(***************************************************************************)
SweepEnded == sweep.pc = "done"

\* the sweep of the big-step model over the same lists
SweepOfLists ==
    Sweep(sweep.features_left, sweep.features_right, sweep.epipolar_offset,
          current_maximum_descriptor_distance_triangulation, SweepStart)

\* the step-by-step sweep ends with the matched-index sets of Sweep
SweepStepsAgree ==
    SweepEnded =>
        /\ sweep.matched_indices_left = SweepOfLists.matched_indices_left
        /\ sweep.matched_indices_right = SweepOfLists.matched_indices_right

SweepSafe ==
    /\ sweep.pc # "panic"
    /\ sweep.iterations <= Len(sweep.features_left)
    /\ sweep.pc \in {"skip_left", "skip_right", "search", "accept"} =>
           /\ sweep.index_l < Len(sweep.features_left)
           /\ sweep.index_r < Len(sweep.features_right)
    /\ SweepEnded =>
           \/ sweep.index_l = Len(sweep.features_left)
           \/ sweep.index_r = Len(sweep.features_right)

\* C25: for all sorted left and right lists and every offset, the sweep never
\* reads a list at an index >= its length, runs the outer loop at most
\* len(left) times, works on only while neither list is exhausted, and
\* terminates with one of the lists exhausted.
C25_SweepInBoundsAndTerminates ==
    []SweepSafe /\ <>SweepEnded

\* a sweep ended by the exhaustion of the right list after it accepted a pair,
\* with left features not yet visited
C25_Witness ==
    /\ SweepEnded
    /\ sweep.matched_indices_left # {}
    /\ sweep.index_r = Len(sweep.features_right)
    /\ sweep.index_l < Len(sweep.features_left)

(***************************************************************************)
(* Claims about initialize without extraction (SpecReload).                *)
(***************************************************************************)
NoExtractStep == call'.op = "initialize" /\ call'.arg = FALSE

\* C31: initialize(frame, extract_features = false) leaves the detectors with
\* their thresholds, number_of_detected_keypoints, max_dist, the search
\* offsets and the frame as they were; both lattices are what set_features
\* makes of them from the frame's keypoints and descriptors.
C31_NoExtractOnlyReloadsLattices ==
    [][NoExtractStep =>
          /\ detectors' = detectors
          /\ number_of_detected_keypoints' = number_of_detected_keypoints
          /\ current_maximum_descriptor_distance_triangulation'
                 = current_maximum_descriptor_distance_triangulation
          /\ epipolar_search_distance' = epipolar_search_distance
          /\ frame' = frame
          /\ call'.result = "Ok"
          /\ feature_matcher_left' =
                 set_fatures(feature_matcher_left, frame.keypoints_left,
                             frame.descriptors_left).m
          /\ feature_matcher_right' =
                 set_fatures(feature_matcher_right, frame.keypoints_right,
                             frame.descriptors_right).m
      ]_vars

\* initialize(frame, false) ran on a frame with keypoints, after detections
\* that moved a threshold and counted keypoints, and both flat lists hold the
\* frame's keypoints again
C31_Witness ==
    /\ call.op = "initialize" /\ call.arg = FALSE
    /\ number_of_detected_keypoints > 0
    /\ \E k \in DOMAIN detectors :
           detectors[k].detector_threshold # detector_threshold_minimum
    /\ frame.keypoints_left # << >>
    /\ KeypointsOf(feature_matcher_left.feature_vector) = frame.keypoints_left
    /\ KeypointsOf(feature_matcher_right.feature_vector) = frame.keypoints_right

====
